---- MODULE Spec2Model ----
(***************************************************************************)
(* Binary Merkle tree over field elements (merkle_tree.py), the Merkle     *)
(* opening circuit that walks an opening back up to the root               *)
(* (zk_merkle.py), and the example driver that ties them together          *)
(* (main_prove_verify.py).                                                 *)
(*                                                                         *)
(* Values.  A field element n in [0, FIELD_MODULUS) is the 1-tuple <<n>>.  *)
(* A hash output is the term <<kind, left, right>>: the hash functions are *)
(* modelled as free (injective, order-sensitive) constructors, one per     *)
(* hash function, so that two different hash functions never agree and a   *)
(* hash output is never a small integer.  A hash output already lies in    *)
(* the field (sha256_to_field ends with "% FIELD_MODULUS").                *)
(***************************************************************************)
EXTENDS Integers, Sequences, FiniteSets, TLC

VARIABLES pc, input, leaves, levels, ret

vars == <<pc, input, leaves, levels, ret>>

----------------------------------------------------------------------------
(* Bounds of the model *)

\* Scaled stand-in for the 254-bit BN254 modulus of hash_utils.py:17.
FIELD_MODULUS == 5

\* Largest leaf list handed to the MerkleTree constructor.
MaxLeaves == 4

\* The driver's random draws are s, s + d, s + 2d, ... for s, d in 0..MaxDraw.
MaxDraw == 1

\* Number of leaves the example driver generates.
NUM_LEAVES == 16

\* Integers a caller may pass as leaves: reduced, negative and over-modulus.
LeafInputs == {-1, 1, FIELD_MODULUS + 2}

\* Leaf lists of the documented scenarios (already field-reduced).
ScenarioLeaves == {<<1, 2, 3>>, <<1, 2, 3, 4>>}

\* Indices a caller may pass to opening().
IndexInputs == -1 .. MaxLeaves

\* Position values outside {0, 1} a caller may pass to the circuit.
BadBits == {2}

----------------------------------------------------------------------------
(* hash_utils.py *)

Fe(n) == <<n>>

\* A hash that drops its right operand.
merkle_hash2LeftOnly(left, right) == <<"sha256", left, left>>

\* merkle_hash2(left, right) = sha256_to_field(left, right)
merkle_hash2(left, right) == <<"sha256", left, right>>

\* poseidon_hash([left, right])[0]
poseidon_circuit_hash(left, right) == <<"poseidon", left, right>>

HashKinds == {"sha256", "poseidon"}

Hash(kind, left, right) ==
    IF kind = "sha256" THEN merkle_hash2(left, right)
                       ELSE poseidon_circuit_hash(left, right)

----------------------------------------------------------------------------
(* merkle_tree.py *)

field(val) == Fe(val % FIELD_MODULUS)

\* The lone trailing node promoted unchanged instead of hashed with itself.
NextLevelPromote(level) ==
    [j \in 1 .. ((Len(level) + 1) \div 2) |->
        LET i == 2 * (j - 1)
        IN  IF i + 1 < Len(level)
            THEN merkle_hash2(level[i + 1], level[i + 2])
            ELSE level[i + 1]]

\* One pass of the for loop of _build_tree over a level (0-based i = 2(j-1)).
NextLevel(level) ==
    [j \in 1 .. ((Len(level) + 1) \div 2) |->
        LET i     == 2 * (j - 1)
            left  == level[i + 1]
            right == IF i + 1 < Len(level) THEN level[i + 2] ELSE left
        IN  merkle_hash2(left, right)]

RECURSIVE BuildLoopDoWhile(_, _)
\* A loop that hashes once before it tests the length.
BuildLoopDoWhile(lvls, level) ==
    LET next_level == NextLevel(level)
    IN  IF Len(next_level) > 1
        THEN BuildLoopDoWhile(Append(lvls, next_level), next_level)
        ELSE Append(lvls, next_level)

RECURSIVE BuildLoop(_, _)
\* The while loop of _build_tree.
BuildLoop(lvls, level) ==
    IF Len(level) > 1
    THEN LET next_level == NextLevel(level)
         IN  BuildLoop(Append(lvls, next_level), next_level)
    ELSE lvls

build_tree(lvs) == BuildLoop(<<lvs>>, lvs)

\* self.leaves = [field(x) for x in leaves]
NormalizeLeaves(in) == [k \in 1 .. Len(in) |-> field(in[k])]

root(lvls) == lvls[Len(lvls)][1]

\* root() assigns nothing: the levels after the call.
LevelsAfterRoot(lvls) == lvls

\* The tree's height: the number of levels minus one.
height(lvls) == Len(lvls) - 1

\* idx ^ 1
Xor1(idx) == IF idx % 2 = 0 THEN idx + 1 ELSE idx - 1

\* A loop that also visits the root level.
OpeningLevelsAll(lvls) == Len(lvls)

\* range(len(self.levels) - 1): how many levels the loop of opening() visits.
OpeningLevels(lvls) == Len(lvls) - 1

\* The position taken from the sibling's index.
PositionAtSibling(idx) == Xor1(idx) % 2

\* positions.append(idx % 2)
PositionAt(idx) == idx % 2

\* The sibling of the node at idx (0-based) of a layer.
SiblingAt(layer, idx) ==
    LET sib_idx == Xor1(idx)
    IN  IF sib_idx >= Len(layer) THEN layer[idx + 1] ELSE layer[sib_idx + 1]

RECURSIVE OpeningLoop(_, _, _, _, _)
\* The for loop of opening(): level is the 0-based loop variable.
OpeningLoop(lvls, level, idx, siblings, positions) ==
    IF level >= OpeningLevels(lvls)
    THEN [siblings |-> siblings, positions |-> positions]
    ELSE LET layer == lvls[level + 1]
             sib   == SiblingAt(layer, idx)
         IN  OpeningLoop(lvls, level + 1, idx \div 2,
                         Append(siblings, sib),
                         Append(positions, PositionAt(idx)))

IndexOutOfRange(lvs, index) == index < 0 \/ index >= Len(lvs)

\* An index outside the leaves clamped to the nearest leaf instead of refused.
openingClamped(lvls, lvs, index) ==
    LET i == IF index < 0 THEN 0
             ELSE IF index >= Len(lvs) THEN Len(lvs) - 1 ELSE index
        o == OpeningLoop(lvls, 0, i, <<>>, <<>>)
    IN  [status |-> "ok", siblings |-> o.siblings, positions |-> o.positions]

opening(lvls, lvs, index) ==
    IF IndexOutOfRange(lvs, index)
    THEN [status |-> "IndexOutOfRange", siblings |-> <<>>, positions |-> <<>>]
    ELSE LET o == OpeningLoop(lvls, 0, index, <<>>, <<>>)
         IN  [status |-> "ok", siblings |-> o.siblings, positions |-> o.positions]

\* The odd-length levels padded in place with their last node.
LevelsAfterOpeningPadded(lvls, index) ==
    [k \in 1 .. Len(lvls) |->
        IF k < Len(lvls) /\ Len(lvls[k]) % 2 = 1
        THEN Append(lvls[k], lvls[k][Len(lvls[k])])
        ELSE lvls[k]]

\* opening() assigns nothing: the levels after the call.
LevelsAfterOpening(lvls, index) == lvls

----------------------------------------------------------------------------
(* zk_merkle.py *)

RECURSIVE WalkUp(_, _, _, _, _)
\* The walk of merkle_opening_circuit from level h (1-based) upward, with the
\* hash function named by kind.
WalkUp(kind, needle, siblings, positions, h) ==
    IF h > Len(positions)
    THEN needle
    ELSE LET position_bit == positions[h]
             sibling      == siblings[h]
             left         == IF position_bit = 0 THEN needle ELSE sibling
             right        == IF position_bit = 0 THEN sibling ELSE needle
         IN  WalkUp(kind, Hash(kind, left, right), siblings, positions, h + 1)

recompute(kind, leaf, siblings, positions) ==
    WalkUp(kind, leaf, siblings, positions, 1)

LengthMismatch(siblings, positions) == Len(siblings) # Len(positions)

InvalidPositionBit(positions) ==
    \E h \in 1 .. Len(positions) : positions[h] \notin {0, 1}

\* The root-equality assertion left out.
assert_zeroSkipped(needle, public_root) == "ok"

\* (needle - public_root).assert_zero()
assert_zero(needle, public_root) ==
    IF needle = public_root THEN "ok" ELSE "RootAssertionFailed"

\* The position bits validated inside the walk, each just before its hash.
merkle_opening_circuitLazy(leaf, siblings, positions, public_root) ==
    IF LengthMismatch(siblings, positions)
    THEN [status |-> "LengthMismatch", hashes |-> 0, asserted |-> FALSE,
          needle |-> <<>>]
    ELSE IF InvalidPositionBit(positions)
    THEN [status |-> "InvalidPositionBit",
          hashes |-> (CHOOSE h \in 1 .. Len(positions) :
                        /\ positions[h] \notin {0, 1}
                        /\ \A g \in 1 .. h - 1 : positions[g] \in {0, 1}) - 1,
          asserted |-> FALSE, needle |-> <<>>]
    ELSE LET needle == recompute("poseidon", leaf, siblings, positions)
         IN  [status |-> assert_zero(needle, public_root),
              hashes |-> Len(positions), asserted |-> TRUE, needle |-> needle]

\* The whole call: how it ends, how many hashes it evaluated, whether it
\* reached the root-equality assertion, and the needle it ended with.
merkle_opening_circuit(leaf, siblings, positions, public_root) ==
    IF LengthMismatch(siblings, positions)
    THEN [status |-> "LengthMismatch", hashes |-> 0, asserted |-> FALSE,
          needle |-> <<>>]
    ELSE IF InvalidPositionBit(positions)
    THEN [status |-> "InvalidPositionBit", hashes |-> 0, asserted |-> FALSE,
          needle |-> <<>>]
    ELSE LET needle == recompute("poseidon", leaf, siblings, positions)
         IN  [status |-> assert_zero(needle, public_root),
              hashes |-> Len(positions), asserted |-> TRUE, needle |-> needle]

----------------------------------------------------------------------------
(* Inputs *)

LeafSeqs ==
    ScenarioLeaves \cup UNION {[1 .. n -> LeafInputs] : n \in 0 .. MaxLeaves}

Replace(s, k, v) == [s EXCEPT ![k] = v]

\* Values an adversary substitutes: a value no tree holds and the root.
TamperVals(lvls) == {Fe(0), root(lvls)}

\* Arguments handed to the circuit: the opening of a leaf, as returned or with
\* one thing changed, against the tree's root or the root the walk yields.
CircuitArgs(lvls, lvs) ==
    UNION {
      LET o    == opening(lvls, lvs, i)
          leaf == lvls[1][i + 1]
          H    == Len(o.positions)
          base == [leaf |-> leaf, siblings |-> o.siblings,
                   positions |-> o.positions, public_root |-> root(lvls)]
      IN  {base,
           [base EXCEPT !.public_root =
               recompute("poseidon", leaf, o.siblings, o.positions)]}
          \cup {[base EXCEPT !.leaf = v] : v \in TamperVals(lvls) \ {leaf}}
          \cup {[base EXCEPT !.siblings = Replace(o.siblings, h, v)] :
                  h \in 1 .. H, v \in TamperVals(lvls)}
          \cup {[base EXCEPT !.positions = Replace(o.positions, h, b)] :
                  h \in 1 .. H, b \in BadBits}
          \cup {[base EXCEPT !.positions = Append(o.positions, 0)],
                [base EXCEPT !.siblings = Append(o.siblings, leaf)]}
          \cup {[base EXCEPT !.siblings = Append(o.siblings, leaf),
                             !.positions = Replace(o.positions, h, b)] :
                  h \in 1 .. H, b \in BadBits}
      : i \in 0 .. Len(lvs) - 1 }

\* generate_random_leaves: the draws, each reduced by field().
RandomLeaves ==
    {[k \in 1 .. NUM_LEAVES |-> (s + (k - 1) * d) % FIELD_MODULUS] :
        s \in 0 .. MaxDraw, d \in 0 .. MaxDraw}

----------------------------------------------------------------------------
(* State machine *)

NoRet ==
    [op |-> "none", status |-> "none", index |-> 0, leaf |-> <<>>,
     siblings |-> <<>>, positions |-> <<>>, public_root |-> <<>>,
     needle |-> <<>>, hashes |-> 0, asserted |-> FALSE]

Init ==
    /\ pc = "new"
    /\ input = <<>>
    /\ leaves = <<>>
    /\ levels = <<>>
    /\ ret = NoRet

\* MerkleTree(in)
Construct ==
    /\ pc = "new"
    /\ \E in \in LeafSeqs :
         /\ input' = in
         /\ IF Len(in) = 0
            THEN /\ pc' = "failed"
                 /\ ret' = [NoRet EXCEPT !.op = "init", !.status = "InvalidInput"]
                 /\ UNCHANGED <<leaves, levels>>
            ELSE /\ pc' = "built"
                 /\ leaves' = NormalizeLeaves(in)
                 /\ levels' = build_tree(NormalizeLeaves(in))
                 /\ ret' = [NoRet EXCEPT !.op = "init", !.status = "ok"]

\* tree.root()
Root ==
    /\ pc = "built"
    /\ ret' = [NoRet EXCEPT !.op = "root", !.status = "ok",
                            !.needle = root(levels)]
    /\ levels' = LevelsAfterRoot(levels)
    /\ UNCHANGED <<pc, input, leaves>>

\* tree.opening(index)
Opening ==
    /\ pc = "built"
    /\ \E index \in IndexInputs :
         LET o == opening(levels, leaves, index)
         IN  /\ ret' = [NoRet EXCEPT !.op = "opening", !.status = o.status,
                                     !.index = index,
                                     !.siblings = o.siblings,
                                     !.positions = o.positions]
             /\ levels' = LevelsAfterOpening(levels, index)
    /\ UNCHANGED <<pc, input, leaves>>

\* merkle_opening_circuit(leaf, siblings, positions, public_root)
Circuit ==
    /\ pc = "built"
    /\ \E a \in CircuitArgs(levels, leaves) :
         LET r == merkle_opening_circuit(a.leaf, a.siblings, a.positions,
                                         a.public_root)
         IN  ret' = [NoRet EXCEPT !.op = "circuit", !.status = r.status,
                                  !.leaf = a.leaf, !.siblings = a.siblings,
                                  !.positions = a.positions,
                                  !.public_root = a.public_root,
                                  !.needle = r.needle, !.hashes = r.hashes,
                                  !.asserted = r.asserted]
    /\ UNCHANGED <<pc, input, leaves, levels>>

\* merkle_membership_example()
Driver ==
    /\ pc = "new"
    /\ \E drawn \in RandomLeaves, index \in 0 .. NUM_LEAVES - 1 :
         LET lvs      == NormalizeLeaves(drawn)
             lvls     == build_tree(lvs)
             root_int == root(lvls)
             leaf_int == Fe(drawn[index + 1])
             o        == opening(lvls, lvs, index)
             r        == merkle_opening_circuit(leaf_int, o.siblings,
                                                o.positions, root_int)
         IN  /\ input' = drawn
             /\ leaves' = lvs
             /\ levels' = lvls
             /\ ret' = [NoRet EXCEPT !.op = "driver", !.status = r.status,
                                     !.index = index, !.leaf = leaf_int,
                                     !.siblings = o.siblings,
                                     !.positions = o.positions,
                                     !.public_root = root_int,
                                     !.needle = r.needle, !.hashes = r.hashes,
                                     !.asserted = r.asserted]
    /\ pc' = "driver_done"

Next == Construct \/ Root \/ Opening \/ Circuit \/ Driver

Spec == Init /\ [][Next]_vars

----------------------------------------------------------------------------
(* Properties *)

Built == pc \in {"built", "driver_done"}

\* Whether the circuit's arguments of the last call are well-formed.
WellFormed == /\ ~LengthMismatch(ret.siblings, ret.positions)
              /\ ~InvalidPositionBit(ret.positions)

\* C1: inclusion soundness.  With the tree's own hash used for the walk, the
\* walk from the tree's leaf at index i along opening(i) ends at root(), for
\* every leaf count (odd-length levels included) and, in the driver's tree of
\* 16 leaves, for every index the driver picks.
InclusionSoundness ==
    /\ (ret.op = "opening" /\ ret.status = "ok") =>
          recompute("sha256", levels[1][ret.index + 1],
                    ret.siblings, ret.positions) = root(levels)
    /\ ret.op = "driver" =>
          recompute("sha256", ret.leaf, ret.siblings, ret.positions)
             = root(levels)

\* An opening of the lone trailing node of an odd-length leaf level.
InclusionWitness ==
    /\ ret.op = "opening" /\ ret.status = "ok"
    /\ Len(levels[1]) > 1 /\ Len(levels[1]) % 2 = 1
    /\ ret.index = Len(levels[1]) - 1

\* C2: the levels of a built tree are the reference construction: level 0 is
\* the input reduced mod P in order, each next level has ceil(n/2) nodes,
\* each node the hash of its two children or of the lone child with itself,
\* the last level has one node and root() returns it; [a, b, c] gives level 1
\* = [Hash(a,b), Hash(c,c)] and root Hash(Hash(a,b), Hash(c,c)).
LevelsAreReference ==
    Built =>
      /\ Len(levels) >= 1
      /\ Len(levels[1]) = Len(input)
      /\ \A k \in 1 .. Len(input) :
            levels[1][k] = Fe(input[k] % FIELD_MODULUS)
      /\ \A i \in 1 .. Len(levels) - 1 :
            /\ 2 * Len(levels[i + 1]) \in {Len(levels[i]), Len(levels[i]) + 1}
            /\ \A j \in 0 .. Len(levels[i + 1]) - 1 :
                  levels[i + 1][j + 1] =
                     IF 2 * j + 1 < Len(levels[i])
                     THEN Hash("sha256", levels[i][2 * j + 1],
                                         levels[i][2 * j + 2])
                     ELSE Hash("sha256", levels[i][2 * j + 1],
                                         levels[i][2 * j + 1])
      /\ Len(levels[Len(levels)]) = 1
      /\ ret.op = "root" => ret.needle = levels[Len(levels)][1]
      /\ input = <<1, 2, 3>> =>
            /\ levels[2] = <<Hash("sha256", Fe(1), Fe(2)),
                             Hash("sha256", Fe(3), Fe(3))>>
            /\ root(levels) = Hash("sha256", Hash("sha256", Fe(1), Fe(2)),
                                             Hash("sha256", Fe(3), Fe(3)))

\* root() called on the tree of leaves [1, 2, 3].
LevelsWitness == pc = "built" /\ input = <<1, 2, 3>> /\ ret.op = "root"

RECURSIVE Pow2(_)
Pow2(h) == IF h = 0 THEN 1 ELSE 2 * Pow2(h - 1)

\* C3: opening(index) returns siblings and positions of length height(); at
\* each level h the cursor idx_h = index div 2^h is a valid index of level h,
\* positions[h] = idx_h mod 2 and siblings[h] is level[h][idx_h XOR 1] when
\* that index exists, else level[h][idx_h]; leaves [1,2,3,4] give height 2
\* and opening(0) = ([2, Hash(3,4)], [0, 0]).
OpeningShape ==
    (ret.op = "opening" /\ ret.status = "ok") =>
      /\ Len(ret.siblings) = height(levels)
      /\ Len(ret.positions) = height(levels)
      /\ height(levels) = Len(levels) - 1
      /\ \A h \in 0 .. height(levels) - 1 :
            LET idx_h == ret.index \div Pow2(h)
                x     == idx_h + 1 - 2 * (idx_h % 2)
            IN  /\ idx_h >= 0 /\ idx_h < Len(levels[h + 1])
                /\ h + 1 <= Len(ret.positions) /\ h + 1 <= Len(ret.siblings)
                /\ ret.positions[h + 1] = idx_h % 2
                /\ ret.siblings[h + 1] =
                      IF x < Len(levels[h + 1]) THEN levels[h + 1][x + 1]
                                                ELSE levels[h + 1][idx_h + 1]
      /\ (input = <<1, 2, 3, 4>> /\ ret.index = 0) =>
            /\ height(levels) = 2
            /\ ret.siblings = <<Fe(2), Hash("sha256", Fe(3), Fe(4))>>
            /\ ret.positions = <<0, 0>>

\* opening(0) on the tree of leaves [1, 2, 3, 4].
OpeningShapeWitness ==
    /\ input = <<1, 2, 3, 4>>
    /\ ret.op = "opening" /\ ret.status = "ok" /\ ret.index = 0

\* C4 as stated: a root mismatch on a well-formed path comes back to the
\* caller as an ordinary result, the call does not end in a failure.
MismatchIsOrdinaryResult ==
    (ret.op = "circuit" /\ WellFormed
       /\ recompute("poseidon", ret.leaf, ret.siblings, ret.positions)
             # ret.public_root)
      => ret.status = "ok"

\* C4 as amended: on a well-formed path the circuit ends by the root-equality
\* assertion alone: it returns normally exactly when the recomputed root
\* equals public_root, and ends in the failed assertion exactly when the two
\* differ.
MismatchFailsAssertion ==
    (ret.op = "circuit" /\ WellFormed) =>
      LET r == recompute("poseidon", ret.leaf, ret.siblings, ret.positions)
      IN  /\ ret.asserted
          /\ ret.status \in {"ok", "RootAssertionFailed"}
          /\ ret.status = "ok" <=> r = ret.public_root
          /\ ret.status = "RootAssertionFailed" <=> r # ret.public_root

\* A well-formed path of a tree of height >= 1 whose recomputed root differs
\* from the public root.
MismatchWitness ==
    /\ ret.op = "circuit" /\ WellFormed /\ Len(ret.positions) >= 1
    /\ ret.status = "RootAssertionFailed"

\* C5: a path with len(siblings) # len(positions) fails with LengthMismatch
\* and a path with a position outside {0, 1} fails with InvalidPositionBit,
\* in both cases before any hash is evaluated and before the root-equality
\* assertion, wherever the bad bit stands.
MalformedRejectedFirst ==
    ret.op \in {"circuit", "driver"} =>
      /\ LengthMismatch(ret.siblings, ret.positions)
            => ret.status = "LengthMismatch"
      /\ (~LengthMismatch(ret.siblings, ret.positions)
            /\ \E h \in 1 .. Len(ret.positions) : ret.positions[h] \notin {0, 1})
            => ret.status = "InvalidPositionBit"
      /\ ~WellFormed => (ret.hashes = 0 /\ ~ret.asserted)
      /\ WellFormed => ret.status \notin {"LengthMismatch", "InvalidPositionBit"}

\* A path of two or more levels whose only bad bit is the last one.
MalformedWitness ==
    /\ ret.op = "circuit" /\ ret.status = "InvalidPositionBit"
    /\ Len(ret.positions) >= 2
    /\ ret.positions[Len(ret.positions)] \notin {0, 1}
    /\ \A h \in 1 .. Len(ret.positions) - 1 : ret.positions[h] \in {0, 1}

\* C6: opening(index) fails with IndexOutOfRange exactly when index < 0 or
\* index >= leafCount, then returns no siblings and no positions, and leaves
\* the levels and the root as built; an index in range does not fail.
OpeningBounds ==
    ret.op = "opening" =>
      /\ ret.status \in {"ok", "IndexOutOfRange"}
      /\ ret.status = "IndexOutOfRange"
            <=> (ret.index < 0 \/ ret.index >= Len(input))
      /\ ret.status = "IndexOutOfRange"
            => (ret.siblings = <<>> /\ ret.positions = <<>>)
      /\ levels = build_tree(NormalizeLeaves(input))

\* opening(leafCount) and opening(-1) refused on a tree of several leaves.
OpeningBoundsWitness ==
    /\ ret.op = "opening" /\ ret.status = "IndexOutOfRange"
    /\ Len(input) >= 2 /\ ret.index \in {-1, Len(input)}

\* The last circuit call's path is opening(i) with the leaf changed.
LeafTampered(i) ==
    LET o == opening(levels, leaves, i)
    IN  /\ ret.leaf # levels[1][i + 1]
        /\ ret.siblings = o.siblings
        /\ ret.positions = o.positions

\* The last circuit call's path is opening(i) with the sibling of level h
\* changed.
SiblingTampered(i, h) ==
    LET o == opening(levels, leaves, i)
    IN  /\ ret.leaf = levels[1][i + 1]
        /\ ret.positions = o.positions
        /\ Len(ret.siblings) = Len(o.siblings)
        /\ h <= Len(o.siblings)
        /\ ret.siblings[h] # o.siblings[h]
        /\ \A g \in 1 .. Len(o.siblings) :
              g # h => ret.siblings[g] = o.siblings[g]

Tampered ==
    /\ ret.op = "circuit"
    /\ \E i \in 0 .. Len(leaves) - 1 :
          \/ LeafTampered(i)
          \/ \E h \in 1 .. height(levels) : SiblingTampered(i, h)

\* C7: tamper sensitivity.  A valid (leaf, opening(i)) with the leaf or
\* exactly one sibling changed recomputes, under the tree's hash as under the
\* circuit's, to a value other than root(), and the circuit checked against
\* root() does not pass.
TamperSensitivity ==
    Tampered =>
      /\ \A kind \in HashKinds :
            recompute(kind, ret.leaf, ret.siblings, ret.positions)
               # root(levels)
      /\ ret.public_root = root(levels) => ret.status = "RootAssertionFailed"

\* The changed sibling is the lone trailing node's own duplicate.
TamperWitness ==
    /\ ret.op = "circuit"
    /\ Len(leaves) > 1 /\ Len(leaves) % 2 = 1
    /\ SiblingTampered(Len(leaves) - 1, 1)

\* C8: a built tree is never mutated.  After any calls of root() and
\* opening(i), valid or not, the levels are those build produced, root()
\* returns the root build produced and opening(i) returns what it returns on
\* the freshly built tree.
TreeImmutable ==
    pc = "built" =>
      LET fresh == build_tree(NormalizeLeaves(input))
      IN  /\ levels = fresh
          /\ leaves = NormalizeLeaves(input)
          /\ ret.op = "root" => ret.needle = root(fresh)
          /\ ret.op = "opening" =>
                LET o == opening(fresh, NormalizeLeaves(input), ret.index)
                IN  /\ ret.status = o.status
                    /\ ret.siblings = o.siblings
                    /\ ret.positions = o.positions

\* Once built, no step changes the levels.
LevelsNeverChange == [][pc = "built" => levels' = levels]_vars

\* An opening returned by a tree with an odd-length level.
TreeImmutableWitness ==
    /\ pc = "built" /\ ret.op = "opening" /\ ret.status = "ok"
    /\ Len(levels[1]) = 3

\* C9: a tree of one leaf x has one level and height 0, its root is x mod P
\* with no hash applied, opening(0) returns two empty sequences and the walk
\* on that opening returns the leaf.
SingletonTree ==
    (pc = "built" /\ Len(input) = 1) =>
      /\ Len(levels) = 1
      /\ height(levels) = 0
      /\ root(levels) = Fe(input[1] % FIELD_MODULUS)
      /\ ret.op = "root" => ret.needle = Fe(input[1] % FIELD_MODULUS)
      /\ (ret.op = "opening" /\ ret.index = 0) =>
            /\ ret.status = "ok"
            /\ ret.siblings = <<>>
            /\ ret.positions = <<>>
            /\ \A kind \in HashKinds :
                  recompute(kind, levels[1][1], ret.siblings, ret.positions)
                     = Fe(input[1] % FIELD_MODULUS)

\* opening(0) on the tree of one leaf that is not reduced.
SingletonWitness ==
    /\ pc = "built" /\ Len(input) = 1
    /\ input[1] \notin 0 .. FIELD_MODULUS - 1
    /\ ret.op = "opening" /\ ret.index = 0

\* C10: in the driver, the root the circuit recomputes from the picked leaf
\* and its opening equals the root the tree published, and the root-equality
\* assertion is satisfied.
DriverRootsAgree ==
    ret.op = "driver" =>
      /\ ret.needle = ret.public_root
      /\ ret.status = "ok"

====
